---- MODULE Spec2Model ----
(***************************************************************************)
(* Streaming temperature anomaly detector of Digiforge.                    *)
(*                                                                         *)
(* Two programs share the detector: Warning_system.py (live listener, the  *)
(* window of a machine is created on first sight) and temperature.py (self *)
(* simulating monitor, the windows of MACHINES are created at import).     *)
(* Temperatures are integers; mean and variance are kept as exact          *)
(* fractions, the way statistics.mean / statistics.stdev compute them      *)
(* before the final conversion to float, and every comparison of the code  *)
(* on them is done by cross multiplication.                                *)
(***************************************************************************)
EXTENDS Integers, Sequences, FiniteSets, TLC

(* ---------------- configuration (both files, lines 9-11) --------------- *)
WINDOW_SIZE == 10
TEMP_THRESHOLD == 75
\* Z_SCORE_LIMIT = 2.5, kept in tenths
Z_SCORE_LIMIT_x10 == 25
\* the literal of `len(readings) < 5`
MIN_SAMPLES == 5

MACHINES == {"Lathe_01", "Milling_02", "Drill_03"}
\* fallback machine of process_simulation_output
FALLBACK_MACHINE == "CNC_Mill_1"

(* ---------------- bounds of the model ---------------------------------- *)
\* detect_anomaly calls of one behaviour of Spec
MaxCalls == 11
\* detect_anomaly calls of one behaviour of SpecStat
MaxStatCalls == 10
\* machine ids a caller passes under Spec: machines of temperature.MACHINES
\* and one that is not among them
SourceIds(p) ==
    IF p = "Warning_system"
    THEN {"Lathe_01", FALLBACK_MACHINE}
    ELSE {"Lathe_01", "Milling_02", FALLBACK_MACHINE}
\* temperatures fed under Spec: one below and one above TEMP_THRESHOLD
Values == {60, 80}
\* machine and temperatures fed under SpecStat
StatIds == {"Lathe_01"}
StatValues == {50, 60, 80}
\* detect_anomaly calls of one behaviour of SpecLive
MaxLiveCalls == 6
\* detect_anomaly calls of one behaviour of SpecConc, the threads that make
\* them, the machine and the temperatures they pass
MaxConcCalls == 6
Threads == {"t1", "t2"}
ConcIds == {"Lathe_01"}
ConcValues == {60, 80}
\* detect_anomaly calls of one behaviour of run_monitoring and the
\* temperatures simulate_temperature draws: a base one and a spiked one
MaxMonitorCalls == 15
SimulatedTemperatures == {60, 80}

VARIABLES
    prog,               \* which program runs: "Warning_system" or "temperature"
    machine_temp_data,  \* the module global: machine id -> deque(maxlen=WINDOW_SIZE)
    hist,               \* ghost: machine id -> every value appended for it, in arrival order
    last,               \* the detect_anomaly call of the last operation (NoCall if it
                        \* made none): its arguments and what it returned or raised
    main,               \* Warning_system.main: "listening", or "crashed" by an
                        \* exception that left process_simulation_output
    line,               \* the line main handed to process_simulation_output last
    out,                \* what that call printed
    refs,               \* the dict by reference: machine id -> identity of its deque
    deques,             \* the deque objects by identity: items and mutation counter
    th                  \* threads inside detect_anomaly: position and locals

vars == <<prog, machine_temp_data, hist, last, main, line, out, refs, deques, th>>

\* the state of the threaded view, which sequential callers never touch
conc_vars == <<refs, deques, th>>

Programs == {"Warning_system", "temperature"}

(* ---------------- helpers ---------------------------------------------- *)
RECURSIVE Sum(_)
Sum(s) == IF s = <<>> THEN 0 ELSE Head(s) + Sum(Tail(s))

RECURSIVE SumSq(_)
SumSq(s) == IF s = <<>> THEN 0 ELSE Head(s) * Head(s) + SumSq(Tail(s))

\* Python's None, as the second component of a (False, None) return
None == [py |-> "None"]

\* mutant: a deque without maxlen never evicts
deque_append_unbounded(readings, temp) == Append(readings, temp)

(* deque(maxlen=WINDOW_SIZE).append: a full deque drops its left end *)
deque_append(readings, temp) ==
    IF Len(readings) < WINDOW_SIZE
    THEN Append(readings, temp)
    ELSE Append(Tail(readings), temp)

(* statistics.mean over ints: the exact fraction sum / n *)
statistics_mean(readings) ==
    [num |-> Sum(readings), den |-> Len(readings)]

\* mutant: the population variance, divided by n and not by n - 1
statistics_pvariance(readings) ==
    LET n == Len(readings)
    IN  [num |-> n * SumSq(readings) - Sum(readings) * Sum(readings),
         den |-> n * n]

(* statistics.variance over ints: the exact fraction                       *)
(* (sum of squares - sum^2 / n) / (n - 1) = (n*sxx - sx^2) / (n*(n-1))     *)
statistics_variance(readings) ==
    LET n == Len(readings)
    IN  [num |-> n * SumSq(readings) - Sum(readings) * Sum(readings),
         den |-> n * (n - 1)]

(* `stdev == 0`: the square root of a fraction is 0 iff its numerator is 0 *)
stdev_is_zero(var) == var.num = 0

(* the numerator of temp - mean over the denominator mean.den *)
deviation(temp, mean) == temp * mean.den - mean.num

\* mutant: abs(z_score) > Z_SCORE_LIMIT, a two-sided test
z_score_exceeds_abs(temp, mean, var) ==
    LET d == temp * mean.den - mean.num
    IN  100 * d * d * var.den
           > Z_SCORE_LIMIT_x10 * Z_SCORE_LIMIT_x10 * mean.den * mean.den * var.num

(* `z_score > Z_SCORE_LIMIT` for z_score = (temp - mean) / stdev, stdev the *)
(* square root of var > 0: z is positive and its square                     *)
(* d^2 * var.den / (mean.den^2 * var.num) exceeds the square of the limit   *)
z_score_exceeds(temp, mean, var) ==
    LET d == deviation(temp, mean)
    IN  /\ d > 0
        /\ 100 * d * d * var.den
             > Z_SCORE_LIMIT_x10 * Z_SCORE_LIMIT_x10 * mean.den * mean.den * var.num

(* the least k in lo..hi with f < (2k+1)^2, by bisection *)
RECURSIVE least_odd_square_above(_, _, _)
least_odd_square_above(f, lo, hi) ==
    IF lo >= hi THEN lo
    ELSE LET mid == (lo + hi) \div 2
         IN  IF f < (2 * mid + 1) * (2 * mid + 1)
             THEN least_odd_square_above(f, lo, mid)
             ELSE least_odd_square_above(f, mid + 1, hi)

(* the integer k >= 0 nearest to sqrt(f)/2: (2k-1)^2 <= f < (2k+1)^2,       *)
(* sought up to 100*WINDOW_SIZE                                             *)
nearest_half_sqrt(f) == least_odd_square_above(f, 0, 100 * WINDOW_SIZE)

(* floor(40000 * a / m) by long division, to stay within 32 bits *)
floor_40000(a, m) ==
    40000 * (a \div m)
      + 200 * ((200 * (a % m)) \div m)
      + (200 * ((200 * (a % m)) % m)) \div m

(* round(z_score, 2) in hundredths: the integer nearest to 100*z, where     *)
(* (200*z)^2 = 40000 * d^2 * var.den / (mean.den^2 * var.num)               *)
z_score_x100(temp, mean, var) ==
    LET d == deviation(temp, mean)
        k == nearest_half_sqrt(
                 floor_40000(d * d * var.den, mean.den * mean.den * var.num))
    IN  IF d < 0 THEN -k ELSE k

(* round(mean, 2) in hundredths, ties to even as Python's round *)
mean_x100(mean) ==
    LET q    == (100 * mean.num) \div mean.den
        rem2 == 2 * ((100 * mean.num) % mean.den)
    IN  IF rem2 > mean.den \/ (rem2 = mean.den /\ q % 2 = 1) THEN q + 1 ELSE q

\* the largest temperature whose printed form is_number knows
MaxNumber == 100
\* the printed forms of the numbers a window of the model can hold
NumberTexts == {ToString(n) : n \in 0..MaxNumber}

(* whether a value of a window is a number: statistics.mean and stdev       *)
(* convert every value to a fraction and raise TypeError for one that is    *)
(* none, a str for instance; a string prints in quotes, a number does not   *)
is_number(x) == ToString(x) \in NumberTexts

\* statistics.mean(readings) raises TypeError
statistics_raises(readings) == \E i \in 1..Len(readings) : ~is_number(readings[i])

(* ---------------- the detectors ---------------------------------------- *)
\* the (False, None) return; also what a call that raised leaves behind
NoReturn == [is_anomaly |-> FALSE, anomaly_data |-> None]

\* mutant: the warm-up gate opens one reading early
not_enough_data_early(readings) == Len(readings) < MIN_SAMPLES - 1

(* `len(readings) < 5`: not enough data yet *)
not_enough_data(readings) == Len(readings) < MIN_SAMPLES

\* mutant: `and` in place of `or`
is_anomalous_and(temp, mean, var) ==
    temp > TEMP_THRESHOLD /\ z_score_exceeds(temp, mean, var)

(* `temp > TEMP_THRESHOLD or z_score > Z_SCORE_LIMIT` *)
is_anomalous(temp, mean, var) ==
    temp > TEMP_THRESHOLD \/ z_score_exceeds(temp, mean, var)

\* mutant: the two reasons swapped
anomaly_reason_swapped(temp) ==
    IF temp > TEMP_THRESHOLD THEN "Z_SCORE_SPIKE" ELSE "HIGH_TEMP"

(* `"HIGH_TEMP" if temp > TEMP_THRESHOLD else "Z_SCORE_SPIKE"` *)
anomaly_reason(temp) ==
    IF temp > TEMP_THRESHOLD THEN "HIGH_TEMP" ELSE "Z_SCORE_SPIKE"

(* Warning_system.detect_anomaly, lines 21-25: the window of machine_id,   *)
(* created if machine_id is no key of the dict, gets temp appended         *)
ws_append(data, machine_id, temp) ==
    LET created == IF machine_id \notin DOMAIN data
                   THEN data @@ (machine_id :> <<>>)
                   ELSE data
    IN  [created EXCEPT ![machine_id] = deque_append(@, temp)]

\* mutant: the threshold is tested before the zero-variance gate
ws_verdict_threshold_first(machine_id, temp, mean, var, now) ==
    IF temp > TEMP_THRESHOLD
         \/ (~stdev_is_zero(var) /\ z_score_exceeds(temp, mean, var))
    THEN [is_anomaly |-> TRUE,
          anomaly_data |->
             [machine_id     |-> machine_id,
              temperature    |-> temp,
              z_score        |-> IF stdev_is_zero(var) THEN 0
                                 ELSE z_score_x100(temp, mean, var),
              mean_temp      |-> mean_x100(mean),
              anomaly_reason |-> anomaly_reason(temp),
              timestamp      |-> now]]
    ELSE NoReturn

(* Warning_system.detect_anomaly, lines 33-49: the verdict from the locals  *)
(* mean and stdev (var is its square); `now` is time.time()                 *)
ws_verdict(machine_id, temp, mean, var, now) ==
    IF stdev_is_zero(var) THEN NoReturn
    ELSE IF is_anomalous(temp, mean, var)
    THEN [is_anomaly |-> TRUE,
          anomaly_data |->
             [machine_id     |-> machine_id,
              temperature    |-> temp,
              z_score        |-> z_score_x100(temp, mean, var),
              mean_temp      |-> mean_x100(mean),
              anomaly_reason |-> anomaly_reason(temp),
              timestamp      |-> now]]
    ELSE NoReturn

(* Warning_system.detect_anomaly(machine_id, temp) on the global `data` *)
ws_detect_anomaly(data, machine_id, temp, now) ==
    LET after    == ws_append(data, machine_id, temp)
        readings == after[machine_id]
    IN  IF ~not_enough_data(readings) /\ statistics_raises(readings)
        THEN [data |-> after, raised |-> "TypeError", ret |-> NoReturn]
        ELSE
        [data   |-> after,
         raised |-> "none",
         ret    |-> IF not_enough_data(readings) THEN NoReturn
                    ELSE ws_verdict(machine_id, temp, statistics_mean(readings),
                                    statistics_variance(readings), now)]

\* mutant: every machine shares one deque, as dict.fromkeys(MACHINES, deque())
\* would build it
tp_append_shared(data, machine, temp) ==
    [k \in DOMAIN data |-> deque_append(data[machine], temp)]

(* temperature.detect_anomaly, lines 38-39, for a machine that is a key:   *)
(* its window gets temp appended                                           *)
tp_append(data, machine, temp) ==
    [data EXCEPT ![machine] = deque_append(@, temp)]

\* mutant: temperature.py alone tests the threshold before the zero-variance
\* gate
tp_verdict_threshold_first(machine, temp, mean, var, now) ==
    IF temp > TEMP_THRESHOLD
         \/ (~stdev_is_zero(var) /\ z_score_exceeds(temp, mean, var))
    THEN [is_anomaly |-> TRUE,
          anomaly_data |->
             [machine_id     |-> machine,
              temperature    |-> temp,
              z_score        |-> IF stdev_is_zero(var) THEN 0
                                 ELSE z_score_x100(temp, mean, var),
              mean_temp      |-> mean_x100(mean),
              anomaly_reason |-> anomaly_reason(temp),
              timestamp      |-> now]]
    ELSE NoReturn

(* temperature.detect_anomaly, lines 47-63: the verdict from the locals     *)
(* mean and stdev                                                           *)
tp_verdict(machine, temp, mean, var, now) ==
    IF stdev_is_zero(var) THEN NoReturn
    ELSE IF is_anomalous(temp, mean, var)
    THEN [is_anomaly |-> TRUE,
          anomaly_data |->
             [machine_id     |-> machine,
              temperature    |-> temp,
              z_score        |-> z_score_x100(temp, mean, var),
              mean_temp      |-> mean_x100(mean),
              anomaly_reason |-> anomaly_reason(temp),
              timestamp      |-> now]]
    ELSE NoReturn

(* temperature.detect_anomaly(machine, temp): machine_temp_data[machine]    *)
(* is a plain dict lookup, a KeyError for a machine that is no key          *)
tp_detect_anomaly(data, machine, temp, now) ==
    IF machine \notin DOMAIN data
    THEN [data |-> data, raised |-> "KeyError", ret |-> NoReturn]
    ELSE
    LET after    == tp_append(data, machine, temp)
        readings == after[machine]
    IN  IF ~not_enough_data(readings) /\ statistics_raises(readings)
        THEN [data |-> after, raised |-> "TypeError", ret |-> NoReturn]
        ELSE
        [data   |-> after,
         raised |-> "none",
         ret    |-> IF not_enough_data(readings) THEN NoReturn
                    ELSE tp_verdict(machine, temp, statistics_mean(readings),
                                    statistics_variance(readings), now)]

(* temperature.generate_alert(anomaly_data): the record logged and printed *)
tp_generate_alert(anomaly_data) ==
    [type        |-> "TEMP_ANOMALY",
     machine     |-> anomaly_data.machine_id,
     temperature |-> anomaly_data.temperature,
     z_score     |-> anomaly_data.z_score,
     reason      |-> anomaly_data.anomaly_reason,
     timestamp   |-> anomaly_data.timestamp]

detect_anomaly(p, data, machine_id, temp, now) ==
    IF p = "Warning_system"
    THEN ws_detect_anomaly(data, machine_id, temp, now)
    ELSE tp_detect_anomaly(data, machine_id, temp, now)

(* ---------------- Warning_system: the live listener -------------------- *)
\* JSON values, tagged with their type
JsonNull == [t |-> "null", v |-> 0]
JsonNumber(n) == [t |-> "number", v |-> n]
JsonString(str) == [t |-> "string", v |-> str]

\* no line read yet
NoLine == [json |-> "none", data |-> <<>>]

(* dict.get(key): None when the key is missing; dict.get(key, default) *)
dict_get(d, key) == IF key \in DOMAIN d THEN d[key] ELSE JsonNull
dict_get_default(d, key, default) == IF key \in DOMAIN d THEN d[key] ELSE default

\* mutant: no test for a missing spindle_temp, None is coerced to 0
temp_is_none_ignored(temp) == FALSE

(* `if temp is None` *)
temp_is_none(temp) == temp.t = "null"

(* generate_alert(anomaly_data): the flat record that is logged and printed *)
generate_alert(anomaly_data) ==
    [type        |-> "TEMP_ANOMALY",
     machine     |-> anomaly_data.machine_id,
     temperature |-> anomaly_data.temperature,
     z_score     |-> anomaly_data.z_score,
     reason      |-> anomaly_data.anomaly_reason,
     timestamp   |-> anomaly_data.timestamp]

\* the detect_anomaly call of an operation that made none
NoCall ==
    [op |-> "none", machine_id |-> "", temp |-> 0, raised |-> "none",
     is_anomaly |-> FALSE, anomaly_data |-> None]

SKIPPED == "Skipped: Received malformed or non-JSON line."

(* process_simulation_output(sim_json) on the global `data`: the dict after *)
(* it, what it printed, the detect_anomaly call it made, the exception that *)
(* left it ("none" if it returned) and the value it returned: it has no     *)
(* return statement with a value, so None on every path                     *)
process_simulation_output(data, sim_json, now) ==
    IF sim_json.json = "malformed"
    THEN \* json.loads raises JSONDecodeError, caught
         [data |-> data, out |-> <<SKIPPED>>, call |-> NoCall, raised |-> "none",
          ret |-> None]
    ELSE IF sim_json.json # "object"
    THEN \* a list, number or string has no .get
         [data |-> data, out |-> <<>>, call |-> NoCall, raised |-> "AttributeError",
          ret |-> None]
    ELSE
    LET temp       == dict_get(sim_json.data, "spindle_temp")
        machine_id == dict_get_default(sim_json.data, "machine",
                                       JsonString(FALLBACK_MACHINE)).v
    IN  IF temp_is_none(temp)
        THEN [data |-> data, out |-> <<>>, call |-> NoCall, raised |-> "none",
              ret |-> None]
        ELSE LET r == ws_detect_anomaly(data, machine_id, temp.v, now)
                 merged == r.ret.anomaly_data
                             @@ ("cycle_id" :> dict_get(sim_json.data, "cycle_id"))
             IN  [data   |-> r.data,
                  out    |-> IF r.ret.is_anomaly
                             THEN <<generate_alert(merged)>> ELSE <<>>,
                  call   |-> [op |-> "detect_anomaly", machine_id |-> machine_id,
                              temp |-> temp.v, raised |-> r.raised,
                              is_anomaly |-> r.ret.is_anomaly,
                              anomaly_data |-> r.ret.anomaly_data],
                  \* only JSONDecodeError is caught
                  raised |-> r.raised,
                  ret    |-> None]

\* temperatures and machine names of the lines fed under SpecLive
LiveValues == {60, 80}
LiveMachines == {"Lathe_01"}
LiveCycleIds == {7}

\* the JSON objects fed: every one of spindle_temp, machine and cycle_id is
\* present or missing, spindle_temp may be null or a string
LiveFieldValues(key) ==
    CASE key = "spindle_temp" -> {JsonNumber(v) : v \in LiveValues}
                                   \cup {JsonNull, JsonString("hot")}
      [] key = "machine"      -> {JsonString(m) : m \in LiveMachines}
      [] key = "cycle_id"     -> {JsonNumber(c) : c \in LiveCycleIds}

LiveJsonValues == UNION {LiveFieldValues(key) : key \in {"spindle_temp", "machine", "cycle_id"}}

LiveObjects ==
    UNION { {d \in [keys -> LiveJsonValues] : \A key \in keys : d[key] \in LiveFieldValues(key)} :
            keys \in SUBSET {"spindle_temp", "machine", "cycle_id"} }

\* the lines fed: text that is no JSON, JSON that is no object, the objects
LiveLines ==
    {[json |-> "malformed", data |-> <<>>], [json |-> "nonobject", data |-> <<>>]}
      \cup {[json |-> "object", data |-> d] : d \in LiveObjects}

(* ---------------- state machine ---------------------------------------- *)
AllIds == MACHINES \cup {FALLBACK_MACHINE}

\* machine_temp_data right after import
InitialData(p) ==
    IF p = "Warning_system" THEN <<>> ELSE [machine \in MACHINES |-> <<>>]

RECURSIVE TotalLen(_, _)
TotalLen(h, ids) ==
    IF ids = {} THEN 0
    ELSE LET m == CHOOSE x \in ids : TRUE
         IN  Len(h[m]) + TotalLen(h, ids \ {m})

\* values appended so far, over all machines; also the model's clock
TotalCalls == TotalLen(hist, AllIds)

(* ---------------- detect_anomaly under threads -------------------------- *)
(* The interpreter switches threads between bytecodes: a call into C such   *)
(* as dict lookup, dict store, deque.append or len is one step; the passes  *)
(* of statistics.mean and statistics.stdev over the deque are Python code   *)
(* and can be interrupted, and a deque iterator raises RuntimeError when    *)
(* the deque was mutated since the iterator was made.                       *)

\* a fresh deque(maxlen=WINDOW_SIZE)
NewDeque == [items |-> <<>>, state |-> 0]

\* the machines of temperature.MACHINES in the order of the list
MachineList == <<"Lathe_01", "Milling_02", "Drill_03">>

InitialRefs(p) ==
    IF p = "Warning_system" THEN <<>>
    ELSE [machine \in MACHINES |->
             CHOOSE i \in 1..Len(MachineList) : MachineList[i] = machine]

InitialDeques(p) ==
    IF p = "Warning_system" THEN <<>>
    ELSE [i \in 1..Len(MachineList) |-> NewDeque]

ZeroFraction == [num |-> 0, den |-> 1]

\* a thread outside detect_anomaly, before its first call
IdleThread ==
    [pc |-> "idle", machine_id |-> "", temp |-> 0, readings |-> 0,
     appended |-> <<>>, it_state |-> 0, mean |-> ZeroFraction,
     mean_read |-> <<>>, var |-> ZeroFraction, var_read |-> <<>>,
     raised |-> "none", ret |-> NoReturn]

\* the dict by value, as the sequential view holds it
ContentsOf(r, d) == [machine \in DOMAIN r |-> d[r[machine]].items]

\* calls begun whose append has not happened yet
PendingCalls ==
    Cardinality({t \in Threads : th[t].pc \in {"check", "create", "lookup", "append"}})

\* a step of thread t that touches locals only
LocalStep(t, new) ==
    /\ th' = [th EXCEPT ![t] = new]
    /\ UNCHANGED <<prog, machine_temp_data, hist, last, main, line, out, refs, deques>>

(* thread t calls detect_anomaly(machine_id, temp) *)
ThreadCall(t) ==
    \E machine_id \in ConcIds, temp \in ConcValues :
        /\ th[t].pc \in {"idle", "done"}
        /\ TotalCalls + PendingCalls < MaxConcCalls
        /\ LocalStep(t, [IdleThread EXCEPT
                            !.pc = IF prog = "Warning_system" THEN "check" ELSE "lookup",
                            !.machine_id = machine_id,
                            !.temp = temp])

(* Warning_system line 21: `if machine_id not in machine_temp_data` *)
ThreadCheck(t) ==
    /\ th[t].pc = "check"
    /\ LocalStep(t, [th[t] EXCEPT
                        !.pc = IF th[t].machine_id \notin DOMAIN refs
                               THEN "create" ELSE "lookup"])

(* Warning_system line 22: a new deque is stored under machine_id, whatever *)
(* is stored there by now                                                   *)
ThreadCreate(t) ==
    /\ th[t].pc = "create"
    /\ deques' = Append(deques, NewDeque)
    /\ refs' = IF th[t].machine_id \in DOMAIN refs
               THEN [refs EXCEPT ![th[t].machine_id] = Len(deques) + 1]
               ELSE refs @@ (th[t].machine_id :> Len(deques) + 1)
    /\ machine_temp_data' = ContentsOf(refs', deques')
    /\ th' = [th EXCEPT ![t].pc = "lookup"]
    /\ UNCHANGED <<prog, hist, last, main, line, out>>

(* Warning_system line 24, temperature line 38:                             *)
(* `readings = machine_temp_data[machine_id]`                               *)
ThreadLookup(t) ==
    /\ th[t].pc = "lookup"
    /\ LocalStep(t, IF th[t].machine_id \in DOMAIN refs
                    THEN [th[t] EXCEPT !.pc = "append",
                                       !.readings = refs[th[t].machine_id]]
                    ELSE [th[t] EXCEPT !.pc = "done", !.raised = "KeyError"])

(* line 25 / 39: `readings.append(temp)` *)
ThreadAppend(t) ==
    /\ th[t].pc = "append"
    /\ deques' = [deques EXCEPT
                     ![th[t].readings] =
                         [items |-> deque_append(@.items, th[t].temp),
                          state |-> @.state + 1]]
    /\ machine_temp_data' = ContentsOf(refs, deques')
    /\ hist' = [hist EXCEPT ![th[t].machine_id] = Append(@, th[t].temp)]
    /\ th' = [th EXCEPT ![t].pc = "len",
                        ![t].appended = deques'[th[t].readings].items]
    /\ UNCHANGED <<prog, last, main, line, out, refs>>

(* line 27 / 41: `if len(readings) < 5: return False, None` *)
ThreadLen(t) ==
    /\ th[t].pc = "len"
    /\ LocalStep(t, [th[t] EXCEPT
                        !.pc = IF not_enough_data(deques[th[t].readings].items)
                               THEN "done" ELSE "mean"])

(* line 30 / 44: statistics.mean(readings) starts its pass over the deque *)
ThreadMeanBegin(t) ==
    /\ th[t].pc = "mean"
    /\ LocalStep(t, [th[t] EXCEPT !.pc = "mean_pass",
                                  !.it_state = deques[th[t].readings].state])

(* and ends it: RuntimeError if the deque was mutated during the pass *)
ThreadMeanEnd(t) ==
    /\ th[t].pc = "mean_pass"
    /\ LocalStep(t,
          IF deques[th[t].readings].state # th[t].it_state
          THEN [th[t] EXCEPT !.pc = "done", !.raised = "RuntimeError"]
          ELSE [th[t] EXCEPT
                   !.pc = "stdev",
                   !.mean = statistics_mean(deques[th[t].readings].items),
                   !.mean_read = deques[th[t].readings].items])

(* line 31 / 45: statistics.stdev(readings) starts its pass over the deque *)
ThreadStdevBegin(t) ==
    /\ th[t].pc = "stdev"
    /\ LocalStep(t, [th[t] EXCEPT !.pc = "stdev_pass",
                                  !.it_state = deques[th[t].readings].state])

(* and ends it *)
ThreadStdevEnd(t) ==
    /\ th[t].pc = "stdev_pass"
    /\ LocalStep(t,
          IF deques[th[t].readings].state # th[t].it_state
          THEN [th[t] EXCEPT !.pc = "done", !.raised = "RuntimeError"]
          ELSE [th[t] EXCEPT
                   !.pc = "verdict",
                   !.var = statistics_variance(deques[th[t].readings].items),
                   !.var_read = deques[th[t].readings].items])

(* lines 33-49 / 47-63: the verdict from the locals *)
ThreadVerdict(t) ==
    /\ th[t].pc = "verdict"
    /\ LocalStep(t, [th[t] EXCEPT
          !.pc = "done",
          !.ret = IF prog = "Warning_system"
                  THEN ws_verdict(th[t].machine_id, th[t].temp, th[t].mean,
                                  th[t].var, TotalCalls)
                  ELSE tp_verdict(th[t].machine_id, th[t].temp, th[t].mean,
                                  th[t].var, TotalCalls)])

NextConc ==
    \E t \in Threads :
        \/ ThreadCall(t)
        \/ ThreadCheck(t)
        \/ ThreadCreate(t)
        \/ ThreadLookup(t)
        \/ ThreadAppend(t)
        \/ ThreadLen(t)
        \/ ThreadMeanBegin(t)
        \/ ThreadMeanEnd(t)
        \/ ThreadStdevBegin(t)
        \/ ThreadStdevEnd(t)
        \/ ThreadVerdict(t)

Init ==
    /\ prog \in Programs
    /\ machine_temp_data = InitialData(prog)
    /\ hist = [m \in AllIds |-> <<>>]
    /\ last = NoCall
    /\ main = "listening"
    /\ line = NoLine
    /\ out = <<>>
    /\ refs = InitialRefs(prog)
    /\ deques = InitialDeques(prog)
    /\ th = [t \in Threads |-> IdleThread]

\* the record of a detect_anomaly call and the ghost history after it
CallRecord(machine_id, temp, r) ==
    [op |-> "detect_anomaly", machine_id |-> machine_id, temp |-> temp,
     raised |-> r.raised, is_anomaly |-> r.ret.is_anomaly,
     anomaly_data |-> r.ret.anomaly_data]

HistAfter(machine_id, temp, r) ==
    IF r.raised = "none"
    THEN [hist EXCEPT ![machine_id] = Append(@, temp)]
    ELSE hist

(* a caller evaluates one reading *)
DetectAnomalyCall(ids, vals, cap) ==
    \E machine_id \in ids, temp \in vals :
        /\ TotalCalls < cap
        /\ \E r \in {detect_anomaly(prog, machine_temp_data, machine_id, temp,
                                   TotalCalls + 1)} :
               /\ machine_temp_data' = r.data
               /\ hist' = HistAfter(machine_id, temp, r)
               /\ last' = CallRecord(machine_id, temp, r)
        /\ UNCHANGED <<prog, main, line, out, conc_vars>>

Next == DetectAnomalyCall(SourceIds(prog), Values, MaxCalls)

Spec == Init /\ [][Next]_vars

NextStat == DetectAnomalyCall(StatIds, StatValues, MaxStatCalls)

SpecStat == Init /\ [][NextStat]_vars

(* Warning_system.main: one iteration of `for line in sys.stdin`, the call  *)
(* of process_simulation_output(line.strip()) and everything it does        *)
MainLoop ==
    \E sim_json \in LiveLines :
        /\ prog = "Warning_system"
        /\ main = "listening"
        /\ TotalCalls < MaxLiveCalls
        /\ \E r \in {process_simulation_output(machine_temp_data, sim_json,
                                              TotalCalls + 1)} :
               /\ machine_temp_data' = r.data
               /\ last' = r.call
               /\ hist' = IF r.call.op = "detect_anomaly"
                          THEN [hist EXCEPT ![r.call.machine_id] =
                                   Append(@, r.call.temp)]
                          ELSE hist
               /\ out' = r.out
               /\ main' = IF r.raised = "none" THEN "listening" ELSE "crashed"
        /\ line' = sim_json
        /\ UNCHANGED <<prog, conc_vars>>

\* mutant: an alert right after an alert is suppressed
RunMonitoring_dedup ==
    \E temp \in SimulatedTemperatures :
        /\ prog = "temperature"
        /\ TotalCalls < MaxMonitorCalls
        /\ \E machine \in {MachineList[(TotalCalls % Len(MachineList)) + 1]} :
           \E r \in {tp_detect_anomaly(machine_temp_data, machine, temp,
                                      TotalCalls + 1)} :
               /\ machine_temp_data' = r.data
               /\ hist' = HistAfter(machine, temp, r)
               /\ last' = CallRecord(machine, temp, r)
               /\ out' = IF r.ret.is_anomaly /\ out = <<>>
                         THEN <<tp_generate_alert(r.ret.anomaly_data)>>
                         ELSE <<>>
        /\ UNCHANGED <<prog, main, line, conc_vars>>

(* temperature.run_monitoring: one pass of the body of `for machine in      *)
(* MACHINES`; the machines take turns in the order of the list, so the one  *)
(* whose turn it is follows from the number of readings taken so far        *)
RunMonitoring ==
    \E temp \in SimulatedTemperatures :
        /\ prog = "temperature"
        /\ TotalCalls < MaxMonitorCalls
        /\ \E machine \in {MachineList[(TotalCalls % Len(MachineList)) + 1]} :
           \E r \in {tp_detect_anomaly(machine_temp_data, machine, temp,
                                      TotalCalls + 1)} :
               /\ machine_temp_data' = r.data
               /\ hist' = HistAfter(machine, temp, r)
               /\ last' = CallRecord(machine, temp, r)
               /\ out' = IF r.ret.is_anomaly
                         THEN <<tp_generate_alert(r.ret.anomaly_data)>>
                         ELSE <<>>
        /\ UNCHANGED <<prog, main, line, conc_vars>>

\* the two drivers: the live listener and the self-simulating monitor
NextDrivers == MainLoop \/ RunMonitoring

SpecDrivers == Init /\ [][NextDrivers]_vars

InitLive == Init /\ prog = "Warning_system"

SpecConc == Init /\ [][NextConc]_vars

SpecLive == InitLive /\ [][MainLoop]_vars

(* ======================= properties ==================================== *)
\* the last operation was a detect_anomaly call that returned
Returned == last.op = "detect_anomaly" /\ last.raised = "none"

\* the window of the machine of the last call, the evaluated reading included
LastWindow == machine_temp_data[last.machine_id]

\* the last k elements of h, oldest first
LastN(h, k) ==
    IF Len(h) <= k THEN h ELSE SubSeq(h, Len(h) - k + 1, Len(h))

AllIdentical(w) == \A i \in 1..Len(w) : w[i] = w[1]

(* C1: the window of every source never holds more than WINDOW_SIZE values, *)
(* and once more than WINDOW_SIZE values arrived for a source its window is *)
(* exactly the WINDOW_SIZE values that arrived last, in arrival order.      *)
C1_WindowIsLastArrivals ==
    \A m \in DOMAIN machine_temp_data :
        /\ Len(machine_temp_data[m]) <= WINDOW_SIZE
        /\ Len(hist[m]) > WINDOW_SIZE =>
              machine_temp_data[m]
                 = SubSeq(hist[m], Len(hist[m]) - WINDOW_SIZE + 1, Len(hist[m]))

\* more than WINDOW_SIZE values arrived, the evicted one differing from the
\* value that is now the oldest and from the newest
C1_Witness ==
    \E m \in DOMAIN machine_temp_data :
        /\ Len(hist[m]) > WINDOW_SIZE
        /\ hist[m][1] # hist[m][2]
        /\ hist[m][1] # hist[m][Len(hist[m])]

RECURSIVE SumSqDev(_, _, _)
SumSqDev(w, n, s) ==
    IF w = <<>> THEN 0
    ELSE (n * Head(w) - s) * (n * Head(w) - s) + SumSqDev(Tail(w), n, s)

ZAbove25(x, w) ==
    LET n == Len(w)
        s == Sum(w)
    IN  /\ n * x - s > 0
        /\ 4 * (n - 1) * (n * x - s) * (n * x - s) > 25 * SumSqDev(w, n, s)

\* the window the last call evaluated, rebuilt from the arrivals
ArrivedWindow == LastN(hist[last.machine_id], WINDOW_SIZE)

\* the last call evaluated at least 5 values that are not all identical
Statistical ==
    /\ Returned
    /\ Len(ArrivedWindow) >= 5
    /\ ~AllIdentical(ArrivedWindow)

(* C4: with at least 5 values in the window, not all identical, the verdict *)
(* is anomalous iff value > TEMP_THRESHOLD or z_score > 2.5, mean and       *)
(* Bessel-corrected stdev taken over the window including the value.        *)
C4_VerdictRule ==
    Statistical =>
        (last.is_anomaly <=>
            (last.temp > 75 \/ ZAbove25(last.temp, ArrivedWindow)))

\* a value above the threshold flagged although its z-score is below the limit
C4_Witness ==
    /\ Statistical
    /\ last.is_anomaly
    /\ last.temp > 75
    /\ ~ZAbove25(last.temp, ArrivedWindow)

\* a value at most the threshold flagged by its z-score alone
C4_WitnessSpike ==
    /\ Statistical
    /\ last.is_anomaly
    /\ last.temp <= 75

(* C5: an anomalous verdict has reason HIGH_TEMP exactly when the value is  *)
(* above TEMP_THRESHOLD (also when the z-score exceeds the limit too) and   *)
(* Z_SCORE_SPIKE exactly when the value is at most TEMP_THRESHOLD and the   *)
(* z-score exceeds the limit.                                               *)
C5_ReasonRule ==
    (Returned /\ last.is_anomaly) =>
        /\ last.anomaly_data.anomaly_reason \in {"HIGH_TEMP", "Z_SCORE_SPIKE"}
        /\ last.anomaly_data.anomaly_reason = "HIGH_TEMP" <=> last.temp > 75
        /\ last.anomaly_data.anomaly_reason = "Z_SCORE_SPIKE" <=>
              (last.temp <= 75 /\ ZAbove25(last.temp, ArrivedWindow))

\* both conditions at once: the reason is HIGH_TEMP
C5_Witness ==
    /\ Returned
    /\ last.is_anomaly
    /\ last.temp > 75
    /\ ZAbove25(last.temp, ArrivedWindow)

\* the z-score alone: the reason is Z_SCORE_SPIKE
C5_WitnessSpike ==
    /\ Returned
    /\ last.is_anomaly
    /\ last.anomaly_data.anomaly_reason = "Z_SCORE_SPIKE"

\* z below minus the limit: n*x - s < 0 and 4*(n-1)*(n*x - s)^2 beyond
\* 25 * sum((n*w[i] - s)^2)
ZBelowMinus25(x, w) ==
    LET n == Len(w)
        s == Sum(w)
    IN  /\ n * x - s < 0
        /\ 4 * (n - 1) * (n * x - s) * (n * x - s) > 25 * SumSqDev(w, n, s)

(* C6: a reading at or below the mean of its window and not above           *)
(* TEMP_THRESHOLD is never anomalous, however far below the mean it lies.   *)
C6_OneSided ==
    (/\ Returned
     /\ Len(ArrivedWindow) * last.temp <= Sum(ArrivedWindow)
     /\ last.temp <= 75) => ~last.is_anomaly

\* a reading more than 2.5 standard deviations below the mean
C6_Witness ==
    /\ Statistical
    /\ last.temp <= 75
    /\ ZBelowMinus25(last.temp, ArrivedWindow)

\* all but the last element
Front(h) == SubSeq(h, 1, Len(h) - 1)

\* program p, started afresh and fed the values h for machine m and nothing
\* else: its dict after the last call (no call if m is no key of temperature)
RECURSIVE SoloData(_, _, _)
SoloData(p, m, h) ==
    IF h = <<>> THEN InitialData(p)
    ELSE IF p = "Warning_system"
    THEN ws_append(SoloData(p, m, Front(h)), m, h[Len(h)])
    ELSE tp_append(SoloData(p, m, Front(h)), m, h[Len(h)])

\* and what its last call returns
SoloRun(p, m, h) ==
    detect_anomaly(p, SoloData(p, m, Front(h)), m, h[Len(h)], Len(h))

\* two returns agree, the timestamp of the finding apart
SameVerdict(is_anomaly, anomaly_data, ret) ==
    /\ is_anomaly = ret.is_anomaly
    /\ IF ret.is_anomaly
       THEN /\ anomaly_data.machine_id = ret.anomaly_data.machine_id
            /\ anomaly_data.temperature = ret.anomaly_data.temperature
            /\ anomaly_data.z_score = ret.anomaly_data.z_score
            /\ anomaly_data.mean_temp = ret.anomaly_data.mean_temp
            /\ anomaly_data.anomaly_reason = ret.anomaly_data.anomaly_reason
       ELSE anomaly_data = ret.anomaly_data

(* C7: sources are independent: whatever the interleaving, the window of    *)
(* every source is the window it would have had its readings been fed       *)
(* alone in the same order (so a call for one source changes no other       *)
(* window), and the verdict of the last call is the verdict of that solo    *)
(* run.                                                                     *)
C7_SourcesIndependent ==
    /\ \A m \in AllIds :
          IF hist[m] = <<>>
          THEN m \in DOMAIN machine_temp_data => machine_temp_data[m] = <<>>
          ELSE /\ m \in DOMAIN machine_temp_data
               /\ machine_temp_data[m] = SoloData(prog, m, hist[m])[m]
    /\ Returned =>
          SameVerdict(last.is_anomaly, last.anomaly_data,
                      SoloRun(prog, last.machine_id, hist[last.machine_id]).ret)

\* a constant over-threshold source judged normal while another source holds
\* lower values that would have made the reading an anomaly
C7_Witness ==
    /\ Returned
    /\ ~last.is_anomaly
    /\ last.temp > TEMP_THRESHOLD
    /\ Len(LastWindow) >= 5
    /\ \E other \in DOMAIN machine_temp_data \ {last.machine_id} :
          /\ Len(machine_temp_data[other]) >= 5
          /\ \A i \in 1..Len(machine_temp_data[other]) :
                machine_temp_data[other][i] < last.temp

(* C8: detect_anomaly never fails for a well-formed reading: a source id    *)
(* not seen before gets a new empty window and the call proceeds, appends   *)
(* and returns a verdict; claimed of both detectors.                        *)
C8_NeverRaises ==
    last.op = "detect_anomaly" =>
        /\ last.raised = "none"
        /\ last.machine_id \in DOMAIN machine_temp_data
        /\ LastWindow # <<>>
        /\ LastWindow[Len(LastWindow)] = last.temp

\* what holds of the code: Warning_system creates the window of an unseen
\* source; temperature raises KeyError exactly for ids outside MACHINES and
\* changes nothing
C8_RaisesOnlyOutsideMachines ==
    last.op = "detect_anomaly" =>
        IF prog = "temperature" /\ last.machine_id \notin MACHINES
        THEN last.raised = "KeyError" /\ last.machine_id \notin DOMAIN machine_temp_data
        ELSE last.raised = "none" /\ LastWindow[Len(LastWindow)] = last.temp

\* l is a JSON object without the key spindle_temp
MissingTemp(l) == l.json = "object" /\ "spindle_temp" \notin DOMAIN l.data

(* C10: process_simulation_output ignores a record without spindle_temp: no *)
(* window is created or changed, detect_anomaly is not called, nothing is   *)
(* printed, and main keeps listening.                                       *)
C10_MissingTempIgnored ==
    [][MissingTemp(line') =>
          /\ machine_temp_data' = machine_temp_data
          /\ last' = NoCall
          /\ out' = <<>>
          /\ main' = "listening"]_vars

\* such a record, naming a machine whose window is past the warm-up, arrived
C10_Witness ==
    /\ MissingTemp(line)
    /\ "machine" \in DOMAIN line.data
    /\ line.data["machine"].v \in DOMAIN machine_temp_data
    /\ Len(machine_temp_data[line.data["machine"].v]) >= 5
    /\ last = NoCall
    /\ out = <<>>

\* no append is lost: the window of every machine is made of the values
\* appended for it, the last WINDOW_SIZE of them in arrival order
NoLostAppend ==
    \A m \in AllIds :
        hist[m] # <<>> =>
            /\ m \in DOMAIN machine_temp_data
            /\ machine_temp_data[m] = LastN(hist[m], WINDOW_SIZE)

\* the window a call computed its mean and its stdev over is the window its
\* own append left, and no pass over the window was cut by a mutation
NoTornRead ==
    \A t \in Threads :
        /\ th[t].raised # "RuntimeError"
        /\ th[t].mean_read # <<>> => th[t].mean_read = th[t].appended
        /\ th[t].var_read # <<>> => th[t].var_read = th[t].appended

(* C9: concurrent evaluations of one source are serialized: append-and-     *)
(* evict and the read for mean/stdev of a call are one atomic unit, so no   *)
(* appended value is lost and no call computes its statistics over a window *)
(* another call changed after this call's append.                           *)
C9_AtomicEvaluation == NoLostAppend /\ NoTornRead

\* a line whose record lacks a numeric reading: spindle_temp missing or null
InvalidReading(l) ==
    /\ l.json = "object"
    /\ "spindle_temp" \in DOMAIN l.data => l.data["spindle_temp"].t = "null"

\* what the caller of process_simulation_output gets from a call: the value
\* returned, the text printed and the exception raised
Outcome(r) == [ret |-> r.ret, out |-> r.out, raised |-> r.raised]

\* a call that evaluated a reading and classified it normal
ClassifiedNormal(r) ==
    r.call.op = "detect_anomaly" /\ r.call.raised = "none" /\ ~r.call.is_anomaly

(* C11: the outcome of processing an invalid reading (no numeric value) is  *)
(* an explicit invalid-input signal: the caller can tell it apart from the  *)
(* outcome of processing, in the same state, any valid reading that is      *)
(* classified normal.                                                       *)
C11_InvalidInputSignalled ==
    [][InvalidReading(line') =>
         \A l \in LiveLines :
             \E r \in {process_simulation_output(machine_temp_data, l,
                                                 TotalCalls + 1)} :
                 ClassifiedNormal(r) =>
                     Outcome(r) # [ret |-> None, out |-> out',
                                   raised |-> IF main' = "crashed"
                                              THEN "raised" ELSE "none"]]_vars

\* the alert emitted by the last call carries the six fields named by the
\* alert shape, each with the value of the finding it was made from
AlertCopiesFinding(alert, finding) ==
    /\ {"type", "machine", "temperature", "z_score", "reason", "timestamp"}
           \subseteq DOMAIN alert
    /\ alert.type = "TEMP_ANOMALY"
    /\ alert.machine = finding.machine_id
    /\ alert.temperature = finding.temperature
    /\ alert.z_score = finding.z_score
    /\ alert.reason = finding.anomaly_reason
    /\ alert.timestamp = finding.timestamp

\* the last line made process_simulation_output emit an alert (the only
\* other output, SKIPPED, is for text that is no JSON)
AlertEmitted == line.json = "object" /\ out # <<>>

\* the six fields are there and unchanged whenever an alert is emitted
C12_SixFieldsUnchanged ==
    AlertEmitted => AlertCopiesFinding(out[1], last.anomaly_data)

(* C12: an emitted alert is a flat record with exactly type, machine,       *)
(* temperature, z_score, reason and timestamp, unchanged from the finding,  *)
(* plus the cycle_id of the input record merged in unchanged.               *)
C12_AlertCarriesCycleId ==
    (AlertEmitted /\ "cycle_id" \in DOMAIN line.data) =>
        /\ AlertCopiesFinding(out[1], last.anomaly_data)
        /\ DOMAIN out[1] = {"type", "machine", "temperature", "z_score",
                            "reason", "timestamp", "cycle_id"}
        /\ out[1]["cycle_id"] = line.data["cycle_id"]

\* the last operation was a detect_anomaly call made by a driver
DriverCalled == last.op = "detect_anomaly"

C13_WitnessListener ==
    /\ prog = "Warning_system"
    /\ last.is_anomaly
    /\ Len(out) = 1
    /\ Len(hist[FALLBACK_MACHINE]) = MIN_SAMPLES + 1
    /\ hist[FALLBACK_MACHINE][MIN_SAMPLES] > TEMP_THRESHOLD

\* the value of the last call is the newest value of the window of its machine
ValueInWindow ==
    /\ last.machine_id \in DOMAIN machine_temp_data
    /\ LastWindow # <<>>
    /\ LastWindow[Len(LastWindow)] = last.temp

(* C14: every detect_anomaly call appends its value to the window of its    *)
(* source before any gate, so the value is in the window after the call     *)
(* whatever the outcome (warm-up, constant window, normal, anomalous), and  *)
(* a flagged value stays in the baseline until WINDOW_SIZE further readings *)
(* evict it.                                                                *)
C14_AppendedWhateverOutcome ==
    last.op = "detect_anomaly" =>
        /\ ValueInWindow
        /\ LastWindow = LastN(hist[last.machine_id], WINDOW_SIZE)

\* the same for the calls that return: it holds for them
C14_AppendedWhenReturned ==
    Returned =>
        /\ ValueInWindow
        /\ LastWindow = LastN(hist[last.machine_id], WINDOW_SIZE)

\* a value flagged earlier is still in the window while fewer than
\* WINDOW_SIZE readings of its machine came after it
C14_FlaggedStays ==
    \A m \in DOMAIN machine_temp_data :
        \A i \in 1..Len(hist[m]) :
            (hist[m][i] > TEMP_THRESHOLD /\ i >= MIN_SAMPLES
               /\ Len(hist[m]) - i < WINDOW_SIZE) =>
                machine_temp_data[m][Len(machine_temp_data[m]) - (Len(hist[m]) - i)]
                    = hist[m][i]

\* a step of a driver that makes no detect_anomaly call leaves every window
\* as it was
C14_OnlyCallsMutate ==
    [][last'.op # "detect_anomaly" => machine_temp_data' = machine_temp_data]_vars

\* a line whose record has a spindle_temp that is no number and not null
NonNumericReading(l) ==
    /\ l.json = "object"
    /\ "spindle_temp" \in DOMAIN l.data
    /\ l.data["spindle_temp"].t = "string"

(* C15: the live listener is never stopped by one input line: whatever the  *)
(* line (text that is no JSON, JSON that is no object, an object without    *)
(* spindle_temp, an object whose spindle_temp is no number, an object with  *)
(* a numeric spindle_temp), process_simulation_output returns normally and  *)
(* main goes on to the next line.                                           *)
C15_ListenerNeverStopped == main = "listening"

\* the same for the lines that are JSON but no object
C15_NonObjectReturns == line.json = "nonobject" => main = "listening"

\* the same for the objects: a spindle_temp that is no number stops main as
\* soon as its window holds MIN_SAMPLES values
C15_ObjectReturns == line.json = "object" => main = "listening"

\* the lines that do return: no JSON, spindle_temp missing or null, and every
\* reading of a window in which all values are numbers
C15_OtherLinesReturn ==
    (\/ line.json = "malformed"
     \/ InvalidReading(line)
     \/ /\ last.op = "detect_anomaly"
        /\ \A i \in 1..Len(LastWindow) : is_number(LastWindow[i]))
        => main = "listening"

\* the scenario of the claim under each detector: 58 after 50, 51, 49, 50, 52
ScenarioWindow == <<50, 51, 49, 50, 52>>
ws_Scenario ==
    ws_detect_anomaly("M3" :> ScenarioWindow, "M3", 58, 6).ret.is_anomaly
tp_Scenario ==
    tp_detect_anomaly("Lathe_01" :> ScenarioWindow, "Lathe_01", 58, 6).ret.is_anomaly

(* C16: with Z_SCORE_LIMIT = 2.5 an anomaly with reason Z_SCORE_SPIKE is    *)
(* never returned for a reading whose window, the reading included, holds   *)
(* fewer than 9 values; 58 after 50, 51, 49, 50, 52 is classified normal.   *)
(* The reading is part of its window, so z <= (n - 1) / sqrt(n), which is   *)
(* 7 / sqrt(8) < 2.5 for n = 8 and 8 / 3 > 2.5 for n = 9.                   *)
C16_NoSpikeBelowNine ==
    /\ (Returned /\ last.is_anomaly
          /\ last.anomaly_data.anomaly_reason = "Z_SCORE_SPIKE")
           => Len(LastWindow) >= 9
    /\ ~ws_Scenario
    /\ ~tp_Scenario

\* a spike is returned for a window of exactly 9 values
C16_Witness ==
    /\ Returned
    /\ last.is_anomaly
    /\ last.anomaly_data.anomaly_reason = "Z_SCORE_SPIKE"
    /\ Len(LastWindow) = 9

OtherProgram(p) == IF p = "Warning_system" THEN "temperature" ELSE "Warning_system"

\* the windows a dict holds for the machines of temperature.MACHINES; a
\* machine Warning_system has not seen yet has no readings
Windows(data) ==
    [m \in MACHINES |-> IF m \in DOMAIN data THEN data[m] ELSE <<>>]

\* the dict program p has built when it holds these windows: temperature
\* has a key for every machine of MACHINES from the start, Warning_system
\* for the machines it has seen
DictOf(p, windows) ==
    IF p = "temperature"
    THEN windows
    ELSE [m \in {x \in MACHINES : windows[x] # <<>>} |-> windows[m]]

(* C17: the two detectors are equivalent on known machines. Started from    *)
(* empty windows and given the same readings of machines of MACHINES, they  *)
(* hold the same windows; so at every call on a known machine the other     *)
(* detector, holding the windows this one holds, returns the same verdict   *)
(* and the same finding fields (timestamp apart) and holds the same windows *)
(* after the call.                                                          *)
C17_DetectorsEquivalent ==
    [][(last'.op = "detect_anomaly" /\ last'.machine_id \in MACHINES) =>
         \E r \in {detect_anomaly(OtherProgram(prog),
                                  DictOf(OtherProgram(prog), Windows(machine_temp_data)),
                                  last'.machine_id, last'.temp, TotalCalls + 1)} :
             /\ r.raised = last'.raised
             /\ SameVerdict(last'.is_anomaly, last'.anomaly_data, r.ret)
             /\ Windows(r.data) = Windows(machine_temp_data')]_vars

\* temperature.py returned an anomaly for one known machine while the window
\* of another one is being filled
C17_Witness ==
    /\ prog = "temperature"
    /\ Returned
    /\ last.machine_id = "Milling_02"
    /\ last.is_anomaly
    /\ Len(hist["Lathe_01"]) >= 2
    /\ Len(LastWindow) > MIN_SAMPLES

\* Warning_system.py returned an anomaly for a known machine
C17_WitnessListener ==
    /\ prog = "Warning_system"
    /\ Returned
    /\ last.machine_id \in MACHINES
    /\ last.is_anomaly

====
